---- MODULE Spec2Model ----
(***************************************************************************)
(* RePlexOn: the manual-backup supervisor (app/services/backup_runner.py)  *)
(* with its callers: the web route POST /schedules/run-now, the CLI        *)
(* command --broadcast and the background poll task.                       *)
(*                                                                         *)
(* Time is the wall clock in whole seconds.  The module globals            *)
(* _running_process and _last_trigger_time are the variables               *)
(* running_process and last_trigger_time of the server process.  A CLI     *)
(* invocation is a fresh interpreter: it runs trigger_backup on freshly    *)
(* initialised globals, against the same database and the same script.     *)
(* The web handlers are `async def` and call the synchronous functions      *)
(* without awaiting, so within the server each call is one atomic step.    *)
(*                                                                         *)
(* The log reconciliation (app/services/log_parser.py) writes the same     *)
(* table.  import_from_tracking_file is modelled line by line, because     *)
(* other connections read the table while it runs: what they can see is    *)
(* the variable store, what the importing session has added and not yet    *)
(* committed is the variable session.  An instant is a naive datetime,     *)
(* counted in seconds from 1970-01-01 00:00:00.                            *)
(***************************************************************************)
EXTENDS Integers, Sequences, FiniteSets, TLC

VARIABLES
    now,                \* time.time(): the wall clock, in seconds
    backup_cooldown,    \* settings.backup_cooldown (from the environment)
    last_trigger_time,  \* _last_trigger_time of the server process
    running_process,    \* _running_process of the server process (None or a pid)
    procs,              \* the external processes launched so far, by pid
    store,              \* table backup_runs, by id
    cli_runs,           \* how many times `replexon --broadcast` has been invoked
    last,               \* the call made last and what it returned
    tracking_file,      \* plex-backup-tracking.log: its lines, each split at the colons
    stats_cache,        \* data/plex-backup-stats.txt: the marker lines extracted
    session,            \* the rows the importing session has added and not committed
    imp_pc,             \* import_from_tracking_file: 0 when not running, else the line it is at
    imp_count,          \* import_from_tracking_file: its local variable count
    passes,             \* how many import passes have been started
    file_imported,      \* the tracking file is as the last completed import read it
    returned,           \* what the last import or enrichment pass returned
    tzname,             \* time.tzname of the host: the zone names its strptime knows
    scan,               \* enrich_from_stats, lines 200-234: the line it is at and its locals
    steps,              \* the calls the last reconciliation pass made, in order
    poll_pc             \* _poll_logs: "sleep" while the task lives, "ended" after it

supervisorVars ==
    <<now, backup_cooldown, last_trigger_time, running_process, procs, cli_runs>>
parserVars ==
    <<tracking_file, stats_cache, session, imp_pc, imp_count, passes, file_imported, returned>>
importVars == <<tracking_file, session, imp_pc, imp_count, passes, file_imported>>
hostVars == <<tzname, scan, steps, poll_pc>>

vars == <<now, backup_cooldown, last_trigger_time, running_process, procs, store, cli_runs,
          last, tracking_file, stats_cache, session, imp_pc, imp_count, passes,
          file_imported, returned, tzname, scan, steps, poll_pc>>

(* ---------------- bounds ---------------- *)

\* The clock reading at start-up.  The real clock counts from 1970, so it is
\* never below the cooldown: the cooldown values tried are BootTime-1 and BootTime.
BootTime == 3
\* How many seconds the clock advances after start-up.
MaxTicks == 2
\* How many rows backup_runs may hold.
MaxRuns == 2
\* How many times the CLI command is invoked.
MaxCli == 1
\* How many lines the tracking file holds.
MaxLines == 2
\* How many import passes are run.
MaxPasses == 2
\* How many backup runs the stats cache covers.
MaxEvents == 2

CooldownValues == {BootTime - 1, BootTime}
ExitCodes == {0, 1}
Outputs == {"log-a", "log-b"}

(* ---------------- values ---------------- *)

None == 0              \* no process / no row
NoneInt == -1          \* a numeric column that is NULL; poll() of a live process
NoneStr == "None"      \* a text column that is NULL

AlreadyRunningMsg == "A backup is already running"
CooldownMsg == "Cooldown active. Try again in"
ScriptNotFoundMsg == "Backup script not found"
OSErrorMsg == "OSError"

\* What a call hands back: a BackupRun (kind "run", its id in run) or a string.
Result(kind, msg, remaining, run) ==
    [kind |-> kind, msg |-> msg, remaining |-> remaining, run |-> run]
NoResult == Result("none", "", 0, None)

\* An input of a call as the call saw it: "unread" when the call returned
\* before reading it.
Input(read, value) == IF ~read THEN "unread" ELSE IF value THEN "yes" ELSE "no"

\* stdout is what check_running_backup read from the pipe of the exited process
Op(op, caller, script_exists, spawn_ok, result) ==
    [op |-> op, caller |-> caller, script_exists |-> script_exists,
     spawn_ok |-> spawn_ok, stdout |-> "unread", result |-> result]
Call(op, caller) == Op(op, caller, "unread", "unread", NoResult)

\* The module globals of one interpreter.
Globals(rp, ltt) == [running_process |-> rp, last_trigger_time |-> ltt]
\* backup_runner.py lines 14-15: the globals right after import.
FreshGlobals == Globals(None, 0)

\* BackupRun(backup_type="manual", status="running", started_at=now, triggered_by="manual")
BackupRun(started) ==
    [backup_type |-> "manual", status |-> "running", started_at |-> started,
     finished_at |-> NoneInt, duration_seconds |-> NoneInt,
     total_size_bytes |-> NoneInt, transferred_bytes |-> NoneInt,
     error_message |-> NoneStr, raw_log |-> NoneStr, triggered_by |-> "manual"]

\* subprocess.Popen(["bash", script_path], stdout=PIPE, stderr=STDOUT);
\* by is the interpreter that launched it: 0 the server, k the k-th CLI invocation
Popen(by) == [alive |-> TRUE, returncode |-> NoneInt, by |-> by]

\* Popen.poll(): None while the process runs, else its exit code.
Poll(ps, pid) == IF ps[pid].alive THEN NoneInt ELSE ps[pid].returncode

(* ---------------- can_trigger_backup ---------------- *)

CanTrigger_NoRunningCheck(g, ps, t, cd) ==
    IF t - g.last_trigger_time < cd
    THEN [can |-> FALSE, msg |-> CooldownMsg, remaining |-> cd - (t - g.last_trigger_time)]
    ELSE [can |-> TRUE, msg |-> "", remaining |-> 0]

CanTrigger_CooldownOffByOne(g, ps, t, cd) ==
    IF g.running_process # None /\ Poll(ps, g.running_process) = NoneInt
    THEN [can |-> FALSE, msg |-> AlreadyRunningMsg, remaining |-> 0]
    ELSE IF t - g.last_trigger_time < cd - 1
    THEN [can |-> FALSE, msg |-> CooldownMsg, remaining |-> cd - (t - g.last_trigger_time)]
    ELSE [can |-> TRUE, msg |-> "", remaining |-> 0]

CanTrigger_CooldownFirst(g, ps, t, cd) ==
    IF t - g.last_trigger_time < cd
    THEN [can |-> FALSE, msg |-> CooldownMsg, remaining |-> cd - (t - g.last_trigger_time)]
    ELSE IF g.running_process # None /\ Poll(ps, g.running_process) = NoneInt
    THEN [can |-> FALSE, msg |-> AlreadyRunningMsg, remaining |-> 0]
    ELSE [can |-> TRUE, msg |-> "", remaining |-> 0]

CanTrigger_NeedsEmptySlot(g, ps, t, cd) ==
    IF g.running_process # None
    THEN [can |-> FALSE, msg |-> AlreadyRunningMsg, remaining |-> 0]
    ELSE IF t - g.last_trigger_time < cd
    THEN [can |-> FALSE, msg |-> CooldownMsg, remaining |-> cd - (t - g.last_trigger_time)]
    ELSE [can |-> TRUE, msg |-> "", remaining |-> 0]

CanTriggerBackup(g, ps, t, cd) ==
    IF g.running_process # None /\ Poll(ps, g.running_process) = NoneInt
    THEN [can |-> FALSE, msg |-> AlreadyRunningMsg, remaining |-> 0]
    ELSE IF t - g.last_trigger_time < cd
    THEN [can |-> FALSE, msg |-> CooldownMsg, remaining |-> cd - (t - g.last_trigger_time)]
    ELSE [can |-> TRUE, msg |-> "", remaining |-> 0]

(* ---------------- trigger_backup ---------------- *)

Outcome(g, db, ps, result) == [g |-> g, db |-> db, ps |-> ps, result |-> result]

\* lines 43-45: `return reason`
Rejected_StampsCooldown(g, db, ps, t, chk) ==
    Outcome(Globals(g.running_process, t), db, ps, Result("error", chk.msg, chk.remaining, None))

Rejected(g, db, ps, t, chk) ==
    Outcome(g, db, ps, Result("error", chk.msg, chk.remaining, None))

\* lines 50-51: `return f"Backup script not found: {script_path}"`
ScriptNotFound_StampsCooldown(g, db, ps, t) ==
    Outcome(Globals(g.running_process, t), db, ps, Result("error", ScriptNotFoundMsg, 0, None))

ScriptNotFound(g, db, ps, t) ==
    Outcome(g, db, ps, Result("error", ScriptNotFoundMsg, 0, None))

\* lines 53-61: db.add(run); db.commit(); db.refresh(run)
InsertRun(db, t) == Append(db, BackupRun(t))

\* lines 71-76: Popen raised OSError
SpawnFailed_LeavesRunning(g, db, ps, t) ==
    Outcome(g, InsertRun(db, t), ps, Result("error", OSErrorMsg, 0, None))

SpawnFailed(g, db, ps, t) ==
    LET db1 == InsertRun(db, t)
        id == Len(db1)
    IN  Outcome(g,
                [db1 EXCEPT ![id].status = "failure",
                            ![id].error_message = OSErrorMsg,
                            ![id].finished_at = t],
                ps, Result("error", OSErrorMsg, 0, None))

\* lines 64-70 and 78: Popen succeeded
Launched_NoCooldownStamp(g, db, ps, t, by) ==
    LET db1 == InsertRun(db, t)
        ps1 == Append(ps, Popen(by))
    IN  Outcome(Globals(Len(ps1), g.last_trigger_time), db1, ps1,
                Result("run", "", 0, Len(db1)))

Launched(g, db, ps, t, by) ==
    LET db1 == InsertRun(db, t)
        ps1 == Append(ps, Popen(by))
    IN  Outcome(Globals(Len(ps1), t), db1, ps1, Result("run", "", 0, Len(db1)))

\* trigger_backup(db): g are the caller's module globals, script_exists is
\* Path(script_path).exists(), spawn_ok is whether Popen raises OSError.
TriggerBackup(g, db, ps, t, cd, script_exists, spawn_ok, by) ==
    LET chk == CanTriggerBackup(g, ps, t, cd)
    IN  IF ~chk.can THEN Rejected(g, db, ps, t, chk)
        ELSE IF ~script_exists THEN ScriptNotFound(g, db, ps, t)
        ELSE IF ~spawn_ok THEN SpawnFailed(g, db, ps, t)
        ELSE Launched(g, db, ps, t, by)

(* ---------------- check_running_backup ---------------- *)

RunningManual(db) ==
    {i \in DOMAIN db : db[i].status = "running" /\ db[i].triggered_by = "manual"}

\* .filter(status == "running", triggered_by == "manual")
\* .order_by(started_at.desc()).first(), None when no row matches.  started_at
\* is stored to the microsecond: of two rows inserted within the same second
\* the one inserted later has the later started_at.
MostRecentRunning(db) ==
    IF RunningManual(db) = {} THEN None
    ELSE CHOOSE i \in RunningManual(db) :
            \A j \in RunningManual(db) :
                \/ db[j].started_at < db[i].started_at
                \/ (db[j].started_at = db[i].started_at /\ j <= i)

\* line 111: f"Script exited with code {returncode}"
ExitedMsg(returncode) == "Script exited with code " \o ToString(returncode)

\* datetime.now(timezone.utc): an instant that carries its zone
Aware(t) == [t |-> t, tzinfo |-> "UTC"]

\* A DateTime column as a session loads it from SQLite: the column type keeps
\* no zone, the value comes back without tzinfo (models/backup.py line 22;
\* models/user.py lines 58-61 allow for it).
Loaded(t) == [t |-> t, tzinfo |-> NoneStr]

TypeErrorMsg == "can't subtract offset-naive and offset-aware datetimes"

\* a - b of two datetimes: TypeError when one carries a zone and the other none
Subtract(a, b) ==
    IF (a.tzinfo = NoneStr) = (b.tzinfo = NoneStr)
    THEN [raised |-> FALSE, seconds |-> a.t - b.t]
    ELSE [raised |-> TRUE, seconds |-> 0]

\* lines 101-113, when line 104 does not raise
FinishRun(run, returncode, stdout, t) ==
    LET r1 == [run EXCEPT !.finished_at = t, !.raw_log = stdout,
                          !.duration_seconds = t - run.started_at]
    IN  IF returncode = 0
        THEN [r1 EXCEPT !.status = "success"]
        ELSE [r1 EXCEPT !.status = "failure",
                        !.error_message = ExitedMsg(returncode)]

\* Lines 88-113: the held process has exited.  The slot is emptied at line
\* 90.  The row is loaded by the session of the caller, and line 104
\* subtracts its started_at from datetime.now(timezone.utc): when that raises,
\* nothing has been committed and the row stays as it was.
Reap(g, db, ps, t, stdout) ==
    LET g1 == Globals(None, g.last_trigger_time)
        run == MostRecentRunning(db)
    IN  IF run = None THEN [g |-> g1, db |-> db, raised |-> FALSE]
        ELSE IF Subtract(Aware(t), Loaded(db[run].started_at)).raised
        THEN [g |-> g1, db |-> db, raised |-> TRUE]
        ELSE [g |-> g1,
              db |-> [db EXCEPT ![run] = FinishRun(db[run],
                                    ps[g.running_process].returncode, stdout, t)],
              raised |-> FALSE]

\* check_running_backup(db): stdout is what _running_process.stdout.read()
\* returns; raised when the call ends with an exception
CheckRunningBackup(g, db, ps, t, stdout) ==
    IF g.running_process = None \/ Poll(ps, g.running_process) = NoneInt
    THEN [g |-> g, db |-> db, raised |-> FALSE]
    ELSE Reap(g, db, ps, t, stdout)

(* ---------------- datetime ---------------- *)

IsLeap(y) == (y % 4 = 0 /\ y % 100 # 0) \/ y % 400 = 0

DaysInMonth(y, m) ==
    CASE m \in {1, 3, 5, 7, 8, 10, 12} -> 31
      [] m \in {4, 6, 9, 11} -> 30
      [] OTHER -> IF IsLeap(y) THEN 29 ELSE 28

\* date(y, m, d).toordinal() - date(1970, 1, 1).toordinal()
DaysFromCivil(y, m, d) ==
    LET y1 == IF m <= 2 THEN y - 1 ELSE y
        era == y1 \div 400
        yoe == y1 - era * 400
        mp == (m + 9) % 12
        doy == (153 * mp + 2) \div 5 + d - 1
        doe == yoe * 365 + yoe \div 4 - yoe \div 100 + doy
    IN  era * 146097 + doe - 719468

\* datetime.weekday(): Monday is 0 and Sunday is 6; 1970-01-01 was a Thursday
Weekday(day) == (day + 3) % 7

\* datetime(y, m, d, h, mi, sec) of day number day
DateTime(day, h, mi, sec) == day * 86400 + h * 3600 + mi * 60 + sec

DayOf(t) == t \div 86400
MinuteOf(t) == (t % 3600) \div 60
SecondOf(t) == t % 60

\* t.replace(hour=h, minute=mi): the second is kept
ReplaceHM(t, h, mi) == DateTime(DayOf(t), h, mi, SecondOf(t))
\* t.replace(hour=h): the minute and the second are kept
ReplaceH(t, h) == DateTime(DayOf(t), h, MinuteOf(t), SecondOf(t))

(* ---------------- the tracking file ---------------- *)

\* The lines tried, each as the pieces between its colons.  2024-06-02 is a
\* Sunday, 2024-06-03 a Monday; June has 30 days.
TrackingLines ==
    { <<"2024-06-02", "success">>,
      <<"2024-06-02", "failed">>,
      <<"2024-06-03", "success">>,
      <<"2024-06-03 ", "SUCCESS">>,
      <<"garbage">>,
      <<"2024-06-31", "success">> }

RECURSIVE FilesOf(_)
FilesOf(n) ==
    IF n = 0 THEN {<<>>}
    ELSE LET shorter == FilesOf(n - 1)
         IN  shorter \cup {Append(f, l) : f \in shorter, l \in TrackingLines}

\* path.read_text().strip().splitlines(), for every content tried
Files == FilesOf(MaxLines)

\* str.strip() on the texts above
Strip(text) == CASE text = "2024-06-03 " -> "2024-06-03" [] OTHER -> text

RECURSIVE JoinColon(_)
JoinColon(pieces) ==
    IF Len(pieces) = 1 THEN pieces[1]
    ELSE JoinColon(SubSeq(pieces, 1, Len(pieces) - 1)) \o ":" \o pieces[Len(pieces)]

\* line.rsplit(":", 1) of a line that holds a colon
RSplit(line) ==
    [date_str |-> JoinColon(SubSeq(line, 1, Len(line) - 1)), result |-> line[Len(line)]]

\* The year, month and day that the pattern of "%Y-%m-%d" captures in a text,
\* <<>> when the text does not match the pattern.
DateFields(text) ==
    CASE text = "2024-06-02" -> <<2024, 6, 2>>
      [] text = "2024-06-03" -> <<2024, 6, 3>>
      [] text = "2024-06-31" -> <<2024, 6, 31>>
      [] OTHER -> <<>>

Strptime_NoRangeCheck(text) ==
    LET f == DateFields(text)
    IN  IF f = <<>> THEN NoneInt ELSE DaysFromCivil(f[1], f[2], f[3])

\* datetime.strptime(text, "%Y-%m-%d"): the day number, NoneInt for ValueError
Strptime(text) ==
    LET f == DateFields(text)
    IN  IF f = <<>> THEN NoneInt
        ELSE IF f[2] \notin 1..12 \/ f[3] \notin 1..DaysInMonth(f[1], f[2]) THEN NoneInt
        ELSE DaysFromCivil(f[1], f[2], f[3])

(* ---------------- import_from_tracking_file ---------------- *)

\* BackupRun(backup_type=..., status=..., started_at=..., triggered_by="cron")
CronRun(backup_type, status, started_at) ==
    [backup_type |-> backup_type, status |-> status, started_at |-> started_at,
     finished_at |-> NoneInt, duration_seconds |-> NoneInt,
     total_size_bytes |-> NoneInt, transferred_bytes |-> NoneInt,
     error_message |-> NoneStr, raw_log |-> NoneStr, triggered_by |-> "cron"]

\* sessionmaker(..., autoflush=False)
Autoflush == FALSE

\* A session at work: db is the table as committed, new the objects added and
\* not flushed, count the importer's counter.
Work(db, new, count) == [db |-> db, new |-> new, count |-> count]

\* The rows a query of the session selects from: without autoflush the
\* objects added since the last commit are not among them.
Visible(st) == IF Autoflush THEN st.db \o st.new ELSE st.db

Existing_NeverFound(st, started_at, backup_type) == FALSE

\* db.query(BackupRun).filter(started_at == ..., backup_type == ...).first()
Existing(st, started_at, backup_type) ==
    \E i \in DOMAIN Visible(st) :
        /\ Visible(st)[i].started_at = started_at
        /\ Visible(st)[i].backup_type = backup_type

SessionAdd_Commits(st, run) ==
    [st EXCEPT !.db = Append(@, run), !.count = @ + 1]

\* db.add(run); count += 1
SessionAdd(st, run) ==
    [st EXCEPT !.new = Append(@, run), !.count = @ + 1]

StatusOf_AlwaysSuccess(result) == "success"

\* line 84
StatusOf(result) == IF Strip(result) = "success" THEN "success" ELSE "failure"

AddCompanions_None(st, started_at) == st

\* lines 113-148: started_at is 03:00 of a Sunday whose backup succeeded
AddCompanions(st, started_at) ==
    LET st1 == IF ~Existing(st, started_at, "snapshot")
               THEN SessionAdd(st, CronRun("snapshot", "success",
                                           ReplaceHM(started_at, 3, 30)))
               ELSE st
    IN  IF ~Existing(st1, ReplaceH(started_at, 4), "cleanup")
        THEN SessionAdd(st1, CronRun("cleanup", "success", ReplaceHM(started_at, 4, 0)))
        ELSE st1

\* lines 82-148: the line's date parsed to day number backup_date
ImportDay(st, backup_date, result) ==
    LET started_at == DateTime(backup_date, 3, 0, 0)
        status == StatusOf(result)
        is_sunday == Weekday(DayOf(started_at)) = 6
    IN  IF Existing(st, started_at, "daily_mirror") THEN st
        ELSE LET st1 == SessionAdd(st, CronRun("daily_mirror", status, started_at))
             IN  IF is_sunday /\ status = "success"
                 THEN AddCompanions(st1, started_at)
                 ELSE st1

\* lines 72-148: one iteration of the loop
ImportLine(st, line) ==
    IF Len(line) < 2 THEN st
    ELSE LET backup_date == Strptime(Strip(RSplit(line).date_str))
         IN  IF backup_date = NoneInt THEN st
             ELSE ImportDay(st, backup_date, RSplit(line).result)

\* lines 150-151: db.commit() flushes the added objects in one transaction
Commit(st) == IF st.count # 0 THEN Work(st.db \o st.new, <<>>, st.count) ELSE st

RECURSIVE ImportLines(_, _, _)
ImportLines(st, file, k) ==
    IF k > Len(file) THEN st ELSE ImportLines(ImportLine(st, file[k]), file, k + 1)

\* import_from_tracking_file(db, tracking_path) from call to return
ImportFromTrackingFile(db, file) ==
    LET st == Commit(ImportLines(Work(db, <<>>, 0), file, 1))
    IN  [db |-> st.db, count |-> st.count]

(* ---------------- the stats cache ---------------- *)

\* how many lines the caches have that the scanning loop is followed on
MaxCacheLines == 4

\* A line of the transcript or of the cache: the pattern it matches, the text
\* of the group that enrich_from_stats reads (a date or a number) and the
\* text of the other group of the pattern (the received figure of an rsync
\* summary, the exit code of a failure banner).
Line(kind, text, rest) == [kind |-> kind, text |-> text, rest |-> rest]

CacheLine(kind, text) == Line(kind, text, "")

\* The year, month, day, hour, minute and second that the patterns of
\* DATE_FORMATS capture in a text, <<>> when no pattern matches.
DateTimeFields(text) ==
    CASE text = "Sun Jun  2 03:00:00 AM EDT 2024" -> <<2024, 6, 2, 3, 0, 0>>
      [] text = "Sun Jun  2 03:12:00 AM EDT 2024" -> <<2024, 6, 2, 3, 12, 0>>
      [] text = "Mon Jun  3 03:00:00 AM EDT 2024" -> <<2024, 6, 3, 3, 0, 0>>
      [] text = "Mon Jun  3 03:12:00 AM EDT 2024" -> <<2024, 6, 3, 3, 12, 0>>
      [] text = "Mon Jun  3 03:00:05 AM EDT 2024" -> <<2024, 6, 3, 3, 0, 5>>
      [] text = "Sun Jun  2 09:00:00 AM CEST 2024" -> <<2024, 6, 2, 9, 0, 0>>
      [] text = "Sun Jun  2 09:12:00 AM CEST 2024" -> <<2024, 6, 2, 9, 12, 0>>
      [] OTHER -> <<>>

\* the zone name that %Z has to match in a text
ZoneOf(text) ==
    CASE text = "Sun Jun  2 09:00:00 AM CEST 2024" -> "CEST"
      [] text = "Sun Jun  2 09:12:00 AM CEST 2024" -> "CEST"
      [] OTHER -> "EDT"

\* time.tzname of a host in the zone of the banners, and of a host on UTC
Eastern == {"EST", "EDT"}
HostZones == {Eastern, {"UTC"}}

\* _parse_date(date_str): an instant, NoneInt for None.  strptime matches %Z
\* against "UTC", "GMT" and the names in time.tzname only.
ParseDate(text) ==
    LET f == DateTimeFields(text)
    IN  IF f = <<>> \/ ZoneOf(text) \notin (tzname \cup {"UTC", "GMT"}) THEN NoneInt
        ELSE DateTime(DaysFromCivil(f[1], f[2], f[3]), f[4], f[5], f[6])

\* _parse_comma_int(s) on the number texts tried
ParseCommaInt(text) ==
    CASE text = "1,234" -> 1234
      [] text = "2,468" -> 2468
      [] text = "10,000,000" -> 10000000
      [] text = "50,000,000" -> 50000000
      [] text = "60,000,000" -> 60000000

\* the closing banner of a run: "Completed Successfully: <date>" or
\* "FAILED with code 1: <date>"
Banner(status, ended) ==
    IF status = "success" THEN Line("success", ended, "") ELSE Line("failed", ended, "1")

\* "sent <sent> bytes  received 10,000,000 bytes ..." and
\* "total size is <total>  speedup is 5.0", none when the figure is ""
Summary(sent, total) ==
    (IF sent = "" THEN <<>> ELSE <<Line("sent", sent, "10,000,000")>>)
    \o (IF total = "" THEN <<>> ELSE <<Line("total", total, "")>>)

\* What one run of the backup script leaves in the cache: the start banner,
\* the rsync summary lines and the success banner.
RunLines(started, ended, sent, total) ==
    <<Line("start", started, "")>> \o Summary(sent, total) \o <<Banner("success", ended)>>

\* What one run of the backup script writes to the transcript: its banners,
\* the lines rsync prints per file and for its summary, and a line of the
\* script that holds "=== Plex Backup" without being a banner of the three kinds.
Transcript(started, ended, sent, total, status) ==
    <<Line("start", started, ""), Line("note", "=== Plex Backup: syncing ===", ""),
      Line("file", "Library/Application Support/x.db", "")>>
    \o Summary(sent, total) \o <<Banner(status, ended)>>

Runs ==
    { Transcript("Sun Jun  2 03:00:00 AM EDT 2024", "Sun Jun  2 03:12:00 AM EDT 2024",
                 n[1], n[2], "success") :
        n \in { <<"1,234", "50,000,000">>, <<"2,468", "60,000,000">>,
                <<"", "50,000,000">>, <<"1,234", "">> } }
    \cup { Transcript("Mon Jun  3 03:00:00 AM EDT 2024", "Mon Jun  3 03:12:00 AM EDT 2024",
                      "1,234", "50,000,000", "success"),
           Transcript("Mon Jun  3 03:00:05 AM EDT 2024", "Mon Jun  3 03:12:00 AM EDT 2024",
                      "1,234", "50,000,000", "success"),
           Transcript("Sun Jun  2 03:00:00 AM EDT 2024", "Sun Jun  2 03:00:00 AM EDT 2024",
                      "", "", "failed"),
           Transcript("Sun Jun  2 09:00:00 AM CEST 2024", "Sun Jun  2 09:12:00 AM CEST 2024",
                      "2,468", "60,000,000", "success") }

\* grep -F -e '=== Plex Backup' -e 'total size is' -e 'sent '
GrepFixed(line) == line.kind # "file"

\* grep -E '=== Plex Backup (Started|Completed|FAILED)|sent .* bytes.*received|total size is .* speedup'
GrepMarkers(line) == line.kind \in {"start", "success", "failed", "sent", "total"}

\* the lines the pipeline of extract_stats_file writes to the cache
ExtractLines(transcript) == SelectSeq(SelectSeq(transcript, GrepFixed), GrepMarkers)

\* how many runs of the backup script a cache covers
RunsIn(cache) == Cardinality({k \in DOMAIN cache : cache[k].kind = "start"})

(* ---------------- enrich_from_stats ---------------- *)

\* current = {}
NoEntry ==
    [open |-> FALSE, start |-> NoneInt, sent |-> NoneInt, total_size |-> NoneInt,
     end |-> NoneInt, status |-> NoneStr]

Close(acc, line, status) ==
    [entries |-> Append(acc.entries,
                        [acc.current EXCEPT !.end = ParseDate(line.text),
                                            !.status = status]),
     current |-> NoEntry]

ScanLine_NoOpenCheck(acc, line) ==
    CASE line.kind = "start"
           -> [acc EXCEPT !.current = [NoEntry EXCEPT !.open = TRUE,
                                                      !.start = ParseDate(line.text)]]
      [] line.kind = "sent" -> [acc EXCEPT !.current.sent = ParseCommaInt(line.text)]
      [] line.kind = "total" -> [acc EXCEPT !.current.total_size = ParseCommaInt(line.text)]
      [] line.kind = "success" -> Close(acc, line, "success")
      [] line.kind = "failed" -> Close(acc, line, "failure")
      [] OTHER -> acc

ScanLine_FirstWins(acc, line) ==
    IF line.kind = "start"
    THEN [acc EXCEPT !.current = [NoEntry EXCEPT !.open = TRUE,
                                                 !.start = ParseDate(line.text)]]
    ELSE IF ~acc.current.open THEN acc
    ELSE CASE line.kind = "sent" /\ acc.current.sent = NoneInt
                -> [acc EXCEPT !.current.sent = ParseCommaInt(line.text)]
           [] line.kind = "total" /\ acc.current.total_size = NoneInt
                -> [acc EXCEPT !.current.total_size = ParseCommaInt(line.text)]
           [] line.kind = "success" -> Close(acc, line, "success")
           [] line.kind = "failed" -> Close(acc, line, "failure")
           [] OTHER -> acc

\* lines 205-234: one iteration of the scanning loop
ScanLine(acc, line) ==
    IF line.kind = "start"
    THEN [acc EXCEPT !.current = [NoEntry EXCEPT !.open = TRUE,
                                                 !.start = ParseDate(line.text)]]
    ELSE IF ~acc.current.open THEN acc
    ELSE CASE line.kind = "sent"
                -> [acc EXCEPT !.current.sent = ParseCommaInt(line.text)]
           [] line.kind = "total"
                -> [acc EXCEPT !.current.total_size = ParseCommaInt(line.text)]
           [] line.kind = "success" -> Close(acc, line, "success")
           [] line.kind = "failed" -> Close(acc, line, "failure")
           [] OTHER -> acc

RECURSIVE ScanLines(_, _, _)
ScanLines(acc, cache, k) ==
    IF k > Len(cache) THEN acc ELSE ScanLines(ScanLine(acc, cache[k]), cache, k + 1)

\* lines 200-234: the finished entries of a cache
Entries(cache) == ScanLines([entries |-> <<>>, current |-> NoEntry], cache, 1).entries

\* `not x` of a number or None
Falsy(x) == x = NoneInt \/ x = 0

MatchingRun_AnyType(db, start) ==
    LET hits == {i \in DOMAIN db :
                    /\ db[i].started_at >= ReplaceHM(start, 0, 0)
                    /\ db[i].started_at <= ReplaceHM(start, 23, 59)}
    IN  IF hits = {} THEN None ELSE CHOOSE i \in hits : \A j \in hits : i <= j

\* lines 244-252: the daily_mirror row of the day of start, None when there is
\* none.  The query has no ORDER BY; SQLite yields equal keys in rowid order.
MatchingRun(db, start) ==
    LET hits == {i \in DOMAIN db :
                    /\ db[i].backup_type = "daily_mirror"
                    /\ db[i].started_at >= ReplaceHM(start, 0, 0)
                    /\ db[i].started_at <= ReplaceHM(start, 23, 59)}
    IN  IF hits = {} THEN None ELSE CHOOSE i \in hits : \A j \in hits : i <= j

FillOnce_Overwrite(current, value) == IF ~Falsy(value) THEN value ELSE current

\* lines 261-266: `if value and not run.field: run.field = value`
FillOnce(current, value) == IF ~Falsy(value) /\ Falsy(current) THEN value ELSE current

EnrichRun_TakesStatus(run, entry) ==
    [run EXCEPT !.total_size_bytes = FillOnce(@, entry.total_size),
                !.transferred_bytes = FillOnce(@, entry.sent),
                !.status = entry.status]

\* lines 261-270
EnrichRun(run, entry) ==
    LET r1 == [run EXCEPT !.total_size_bytes = FillOnce(@, entry.total_size),
                          !.transferred_bytes = FillOnce(@, entry.sent)]
    IN  IF entry.end # NoneInt /\ Falsy(run.duration_seconds)
        THEN [r1 EXCEPT !.duration_seconds = entry.end - entry.start,
                        !.finished_at = entry.end]
        ELSE r1

\* the flag `changed` of lines 256-270
Changed(run, entry) ==
    \/ ~Falsy(entry.total_size) /\ Falsy(run.total_size_bytes)
    \/ ~Falsy(entry.sent) /\ Falsy(run.transferred_bytes)
    \/ entry.end # NoneInt /\ Falsy(run.duration_seconds)

EnrichEntry_AnyDay(st, entry) ==
    LET hits == {i \in DOMAIN st.db : st.db[i].backup_type = "daily_mirror"}
        i == IF entry.start = NoneInt \/ MatchingRun(st.db, entry.start) = None
             THEN CHOOSE j \in hits : \A h \in hits : j <= h
             ELSE MatchingRun(st.db, entry.start)
        e == [entry EXCEPT !.start = IF @ = NoneInt THEN st.db[i].started_at ELSE @]
    IN  IF hits = {} THEN st
        ELSE [db |-> [st.db EXCEPT ![i] = EnrichRun(@, e)],
              updated |-> st.updated + (IF Changed(st.db[i], e) THEN 1 ELSE 0)]

\* lines 238-272: one iteration of the enriching loop; the session hands the
\* same object to every entry of a day, so an entry sees what the entries
\* before it wrote
EnrichEntry(st, entry) ==
    IF entry.start = NoneInt THEN st
    ELSE LET i == MatchingRun(st.db, entry.start)
         IN  IF i = None THEN st
             ELSE [db |-> [st.db EXCEPT ![i] = EnrichRun(@, entry)],
                   updated |-> st.updated + (IF Changed(st.db[i], entry) THEN 1 ELSE 0)]

RECURSIVE EnrichEntries(_, _, _)
EnrichEntries(st, entries, k) ==
    IF k > Len(entries) THEN st
    ELSE EnrichEntries(EnrichEntry(st, entries[k]), entries, k + 1)

\* enrich_from_stats(db, stats_path) from call to return
EnrichFromStats(db, cache) ==
    IF cache = <<>> THEN [db |-> db, updated |-> 0]
    ELSE EnrichEntries([db |-> db, updated |-> 0], Entries(cache), 1)

(* ---------------- extract_stats_file, parse_full_log, parse_incremental ---------------- *)

\* the transcript plex-backup.log as a call finds it
Log(exists, lines) == [exists |-> exists, lines |-> lines]

\* The exit status of the shell pipeline: that of its last command, the
\* grep -E, which is 0 when it selected a line and 1 when it selected none,
\* also when the first grep could not open the transcript.
PipelineStatus(log) ==
    IF log.exists /\ ExtractLines(log.lines) # <<>> THEN 0 ELSE 1

\* what the redirection has written when the pipeline ends by itself
Extracted(log) == IF log.exists THEN ExtractLines(log.lines) ELSE <<>>

\* extract_stats_file(log_path): what it returns and what it leaves in the
\* cache file.  The shell truncates the cache before the pipeline starts; a
\* pipeline killed at the timeout has written the first `written` lines.
ExtractStatsFile(log, timed_out, written) ==
    IF timed_out THEN [path |-> NoneStr, cache |-> SubSeq(Extracted(log), 1, written)]
    ELSE IF PipelineStatus(log) \notin {0, 1} THEN [path |-> NoneStr, cache |-> Extracted(log)]
    ELSE [path |-> "data/plex-backup-stats.txt", cache |-> Extracted(log)]

\* a call made by a pass: what it was given and what it returned
Step(call, input, result) == [call |-> call, input |-> input, result |-> result]

\* how a call of extract_stats_file found the transcript
LogState(log, timed_out) ==
    IF timed_out THEN "timeout" ELSE IF log.exists THEN "read" ELSE "missing"

ParseFullLog_ReturnsUpdated(db, file, cache) ==
    LET imp == ImportFromTrackingFile(db, file)
        enr == EnrichFromStats(imp.db, cache)
    IN  [db |-> enr.db, cache |-> cache, count |-> enr.updated,
         steps |-> <<Step("import", "", ToString(imp.count)),
                     Step("enrich", "", ToString(enr.updated))>>]

\* parse_full_log(db, log_path)
ParseFullLog(db, file, cache) ==
    LET imp == ImportFromTrackingFile(db, file)
        enr == EnrichFromStats(imp.db, cache)
    IN  [db |-> enr.db, cache |-> cache, count |-> imp.count,
         steps |-> <<Step("import", "", ToString(imp.count)),
                     Step("enrich", "", ToString(enr.updated))>>]

ParseIncremental_EnrichesAlways(db, file, cache, log, timed_out, written) ==
    LET imp == ImportFromTrackingFile(db, file)
        ext == ExtractStatsFile(log, timed_out, written)
        enr == EnrichFromStats(imp.db, ext.cache)
    IN  IF imp.count = 0
        THEN [db |-> imp.db, cache |-> cache, count |-> 0,
              steps |-> <<Step("import", "", "0")>>]
        ELSE [db |-> enr.db, cache |-> ext.cache, count |-> imp.count,
              steps |-> <<Step("import", "", ToString(imp.count)),
                          Step("extract", LogState(log, timed_out), ext.path),
                          Step("enrich", "", ToString(enr.updated))>>]

ParseIncremental_AlwaysExtracts(db, file, cache, log, timed_out, written) ==
    LET imp == ImportFromTrackingFile(db, file)
        ext == ExtractStatsFile(log, timed_out, written)
        enr == EnrichFromStats(imp.db, ext.cache)
    IN  IF ext.path = NoneStr
        THEN [db |-> imp.db, cache |-> ext.cache, count |-> imp.count,
              steps |-> <<Step("import", "", ToString(imp.count)),
                          Step("extract", LogState(log, timed_out), ext.path)>>]
        ELSE [db |-> enr.db, cache |-> ext.cache, count |-> imp.count,
              steps |-> <<Step("import", "", ToString(imp.count)),
                          Step("extract", LogState(log, timed_out), ext.path),
                          Step("enrich", "", ToString(enr.updated))>>]

\* parse_incremental(db, log_path)
ParseIncremental(db, file, cache, log, timed_out, written) ==
    LET imp == ImportFromTrackingFile(db, file)
        ext == ExtractStatsFile(log, timed_out, written)
        enr == EnrichFromStats(imp.db, ext.cache)
    IN  IF imp.count = 0
        THEN [db |-> imp.db, cache |-> cache, count |-> 0,
              steps |-> <<Step("import", "", "0")>>]
        ELSE IF ext.path = NoneStr
        THEN [db |-> imp.db, cache |-> ext.cache, count |-> imp.count,
              steps |-> <<Step("import", "", ToString(imp.count)),
                          Step("extract", LogState(log, timed_out), ext.path)>>]
        ELSE [db |-> enr.db, cache |-> ext.cache, count |-> imp.count,
              steps |-> <<Step("import", "", ToString(imp.count)),
                          Step("extract", LogState(log, timed_out), ext.path),
                          Step("enrich", "", ToString(enr.updated))>>]

\* no import running, nothing read yet
ParserIdle ==
    /\ tracking_file = <<>>
    /\ stats_cache = <<>>
    /\ session = <<>>
    /\ imp_pc = 0
    /\ imp_count = 0
    /\ passes = 0
    /\ file_imported = FALSE
    /\ returned = NoneInt

\* the scanning loop not entered
ScanIdle == [k |-> 0, entries |-> <<>>, current |-> NoEntry]

\* a host in the zone of the banners, its poll task waiting, no pass made yet
HostIdle ==
    /\ tzname = Eastern
    /\ scan = ScanIdle
    /\ steps = <<>>
    /\ poll_pc = "sleep"

(* ---------------- the state machine ---------------- *)

Server == 0

Init ==
    /\ now = BootTime
    /\ backup_cooldown \in CooldownValues
    /\ last_trigger_time = 0
    /\ running_process = None
    /\ procs = <<>>
    /\ store = <<>>
    /\ cli_runs = 0
    /\ last = Call("init", "none")
    /\ ParserIdle
    /\ HostIdle

\* The globals trigger_backup runs on: the server's, or those of a new interpreter.
CallerGlobals(caller) ==
    IF caller = "web" THEN Globals(running_process, last_trigger_time) ELSE FreshGlobals

\* What a trigger_backup call leaves in `last`.
TriggerCall(caller, g, script_exists, spawn_ok, result) ==
    LET can == CanTriggerBackup(g, procs, now, backup_cooldown).can
    IN  Op("trigger", caller, Input(can, script_exists),
           Input(can /\ script_exists, spawn_ok), result)

\* the rows that trigger_backup has inserted
ManualRuns(db) == {i \in DOMAIN db : db[i].triggered_by = "manual"}

\* POST /schedules/run-now in the server process
WebTrigger ==
    \E script_exists \in BOOLEAN, spawn_ok \in BOOLEAN :
        LET g == CallerGlobals("web")
            o == TriggerBackup(g, store, procs, now, backup_cooldown,
                               script_exists, spawn_ok, Server)
        IN  /\ Cardinality(ManualRuns(o.db)) <= MaxRuns
            /\ running_process' = o.g.running_process
            /\ last_trigger_time' = o.g.last_trigger_time
            /\ store' = o.db
            /\ procs' = o.ps
            /\ last' = TriggerCall("web", g, script_exists, spawn_ok, o.result)
            /\ UNCHANGED <<now, backup_cooldown, cli_runs>>
            /\ UNCHANGED parserVars
            /\ UNCHANGED hostVars

\* `replexon --broadcast`: trigger_backup in a new interpreter, which then exits
CliBroadcast ==
    \E script_exists \in BOOLEAN, spawn_ok \in BOOLEAN :
        LET g == CallerGlobals("cli")
            o == TriggerBackup(g, store, procs, now, backup_cooldown,
                               script_exists, spawn_ok, cli_runs + 1)
        IN  /\ cli_runs < MaxCli
            /\ Len(o.db) <= MaxRuns
            /\ cli_runs' = cli_runs + 1
            /\ store' = o.db
            /\ procs' = o.ps
            /\ last' = TriggerCall("cli", g, script_exists, spawn_ok, o.result)
            /\ UNCHANGED <<now, backup_cooldown, running_process, last_trigger_time>>
            /\ UNCHANGED parserVars
            /\ UNCHANGED hostVars

\* the external script pid ends with an exit code
ProcExit(pid) ==
    \E rc \in ExitCodes :
        /\ pid \in DOMAIN procs
        /\ procs[pid].alive
        /\ procs' = [procs EXCEPT ![pid].alive = FALSE, ![pid].returncode = rc]
        /\ last' = Call("env", "none")
        /\ UNCHANGED <<now, backup_cooldown, running_process, last_trigger_time,
                       store, cli_runs>>
        /\ UNCHANGED parserVars
        /\ UNCHANGED hostVars

\* What a check_running_backup call leaves in `last`: the output it read, if
\* it got as far as line 89.
ReconcileCall(g, stdout) ==
    IF g.running_process = None \/ Poll(procs, g.running_process) = NoneInt
    THEN Call("reconcile", "web")
    ELSE [Call("reconcile", "web") EXCEPT !.stdout = stdout]

\* _poll_logs: check_running_backup(db) in the server process; an exception
\* it raises is caught and logged by the loop
Reconcile ==
    \E stdout \in Outputs :
        LET g == CallerGlobals("web")
            o == CheckRunningBackup(g, store, procs, now, stdout)
        IN  /\ running_process' = o.g.running_process
            /\ last_trigger_time' = o.g.last_trigger_time
            /\ store' = o.db
            /\ last' = [ReconcileCall(g, stdout) EXCEPT
                           !.result = IF o.raised
                                      THEN Result("raised", TypeErrorMsg, 0, None)
                                      ELSE NoResult]
            /\ UNCHANGED <<now, backup_cooldown, procs, cli_runs>>
            /\ UNCHANGED parserVars
            /\ UNCHANGED hostVars

\* a second passes
Tick ==
    /\ now < BootTime + MaxTicks
    /\ now' = now + 1
    /\ last' = Call("env", "none")
    /\ UNCHANGED <<backup_cooldown, running_process, last_trigger_time, procs,
                   store, cli_runs>>
    /\ UNCHANGED parserVars
    /\ UNCHANGED hostVars

Exits == \E pid \in 1..MaxRuns : ProcExit(pid)

Next == WebTrigger \/ CliBroadcast \/ Exits \/ Reconcile \/ Tick

Spec == Init /\ [][Next]_vars

\* the server process alone: the CLI command is never invoked
NextWeb == WebTrigger \/ Exits \/ Reconcile \/ Tick

SpecWeb == Init /\ [][NextWeb]_vars

\* Every launched script ends, and the poll task keeps calling check_running_backup.
Fairness == WF_vars(Reconcile) /\ \A pid \in 1..MaxRuns : WF_vars(ProcExit(pid))

FairSpec == Spec /\ Fairness

\* The server alone, where every launched script ends and the clock goes on;
\* nothing is assumed about how often check_running_backup is called.
FairWeb == SpecWeb /\ WF_vars(Tick) /\ \A pid \in 1..MaxRuns : WF_vars(ProcExit(pid))

(* ---------------- the log reconciliation ---------------- *)

\* the supervisor at rest while the log reconciliation is looked at
SupervisorIdle ==
    /\ now = BootTime
    /\ backup_cooldown = BootTime
    /\ last_trigger_time = 0
    /\ running_process = None
    /\ procs = <<>>
    /\ cli_runs = 0
    /\ last = Call("init", "none")

InitImport ==
    /\ SupervisorIdle
    /\ store = <<>>
    /\ tracking_file \in Files
    /\ stats_cache = <<>>
    /\ session = <<>>
    /\ imp_pc = 0
    /\ imp_count = 0
    /\ passes = 0
    /\ file_imported = FALSE
    /\ returned = NoneInt
    /\ HostIdle

\* lines 66-71: the file is read at once, count = 0
ImportStart ==
    /\ imp_pc = 0
    /\ passes < MaxPasses
    /\ imp_pc' = 1
    /\ imp_count' = 0
    /\ session' = <<>>
    /\ passes' = passes + 1
    /\ last' = Call("import", "poll")
    /\ UNCHANGED <<store, tracking_file, stats_cache, file_imported, returned>>
    /\ UNCHANGED supervisorVars
    /\ UNCHANGED hostVars

\* lines 71-148: the loop body on line imp_pc
ImportStep ==
    /\ imp_pc \in 1..Len(tracking_file)
    /\ LET st == ImportLine(Work(store, session, imp_count), tracking_file[imp_pc])
       IN  /\ store' = st.db
           /\ session' = st.new
           /\ imp_count' = st.count
    /\ imp_pc' = imp_pc + 1
    /\ UNCHANGED <<tracking_file, stats_cache, passes, file_imported, returned, last>>
    /\ UNCHANGED supervisorVars
    /\ UNCHANGED hostVars

\* lines 150-152: commit if anything was added, return count
ImportReturn ==
    /\ imp_pc = Len(tracking_file) + 1
    /\ LET st == Commit(Work(store, session, imp_count))
       IN  /\ store' = st.db
           /\ session' = st.new
           /\ returned' = st.count
    /\ imp_pc' = 0
    /\ file_imported' = TRUE
    /\ UNCHANGED <<tracking_file, stats_cache, imp_count, passes, last>>
    /\ UNCHANGED supervisorVars
    /\ UNCHANGED hostVars

\* the backup script rewrites the tracking file between two imports
WriteTrackingFile ==
    /\ imp_pc = 0
    /\ passes \in 1..(MaxPasses - 1)
    /\ file_imported
    /\ \E f \in Files \ {tracking_file} : tracking_file' = f
    /\ file_imported' = FALSE
    /\ last' = Call("env", "none")
    /\ UNCHANGED <<store, stats_cache, session, imp_count, imp_pc, passes, returned>>
    /\ UNCHANGED supervisorVars
    /\ UNCHANGED hostVars

NextImport == ImportStart \/ ImportStep \/ ImportReturn \/ WriteTrackingFile

SpecImport == InitImport /\ [][NextImport]_vars

\* the tables that importing a tracking file into an empty table leaves, and
\* the table in which the import found the row of a manual backup started at
\* 02:00 of that Sunday and still running
EnrichStores ==
    { ImportFromTrackingFile(<<>>, f).db :
        f \in { << <<"2024-06-02", "success">>, <<"2024-06-03", "success">> >>,
                << <<"2024-06-02", "success">>, <<"2024-06-02", "success">> >> } }
    \cup { ImportFromTrackingFile(<<BackupRun(DateTime(DaysFromCivil(2024, 6, 2), 2, 0, 0))>>,
                                  << <<"2024-06-02", "success">> >>).db }

InitEnrich ==
    /\ SupervisorIdle
    /\ store \in EnrichStores
    /\ ParserIdle
    /\ tzname \in HostZones
    /\ scan = ScanIdle
    /\ steps = <<>>
    /\ poll_pc = "sleep"

\* extract_stats_file: the cache is written anew from the transcript, which
\* since the last extraction has grown by one run of the backup script or has
\* been rotated away.  The pipeline selects line by line, so the lines of
\* the runs extracted before are selected again.
ExtractStats ==
    /\ \E cache \in {stats_cache \o ExtractLines(r) : r \in Runs} \cup {<<>>} :
          /\ cache # stats_cache
          /\ RunsIn(cache) <= MaxEvents
          /\ stats_cache' = cache
    /\ last' = Call("extract", "poll")
    /\ UNCHANGED <<store, returned>>
    /\ UNCHANGED importVars
    /\ UNCHANGED supervisorVars
    /\ UNCHANGED hostVars

\* enrich_from_stats on the cache as it is
EnrichPass ==
    /\ LET o == EnrichFromStats(store, stats_cache)
       IN  /\ store' = o.db
           /\ returned' = o.updated
    /\ last' = Call("enrich", "poll")
    /\ UNCHANGED stats_cache
    /\ UNCHANGED importVars
    /\ UNCHANGED supervisorVars
    /\ UNCHANGED hostVars

NextEnrich == ExtractStats \/ EnrichPass

SpecEnrich == InitEnrich /\ [][NextEnrich]_vars

\* the transcripts a pass may find: none, an empty one, one with a run of
\* the Sunday or of the Monday
Logs ==
    { Log(FALSE, <<>>), Log(TRUE, <<>>),
      Log(TRUE, Transcript("Sun Jun  2 03:00:00 AM EDT 2024",
                           "Sun Jun  2 03:12:00 AM EDT 2024",
                           "1,234", "50,000,000", "success")),
      Log(TRUE, Transcript("Mon Jun  3 03:00:00 AM EDT 2024",
                           "Mon Jun  3 03:12:00 AM EDT 2024",
                           "2,468", "60,000,000", "success")) }

\* the lines the backup script writes while the passes are followed
AppendedLines ==
    { <<"2024-06-02", "success">>, <<"2024-06-03", "success">>, <<"garbage">> }

\* the server starts on an empty table or on the table an earlier run has
\* left, with the tracking file the backup script has written so far and the
\* cache an earlier extraction has left
InitReconcile ==
    /\ SupervisorIdle
    /\ store \in {<<>>, ImportFromTrackingFile(<<>>, << <<"2024-06-02", "success">> >>).db}
    /\ tracking_file \in {<<>>} \cup {<<line>> : line \in AppendedLines}
    /\ stats_cache \in {Extracted(log) : log \in Logs}
    /\ session = <<>>
    /\ imp_pc = 0
    /\ imp_count = 0
    /\ passes = 0
    /\ file_imported = FALSE
    /\ returned = NoneInt
    /\ HostIdle

\* How many lines the pipeline may have written when it ends: all when it
\* ends by itself, none, one or all when it is killed at the timeout.
Written(log, timed_out) ==
    IF timed_out THEN {w \in {0, 1, Len(Extracted(log))} : w <= Len(Extracted(log))}
    ELSE {Len(Extracted(log))}

\* lifespan, lines 59-70 of main.py: parse_full_log once, before the poll task
FullPass ==
    /\ passes = 0
    /\ \E o \in {ParseFullLog(store, tracking_file, stats_cache)} :
           /\ store' = o.db
           /\ stats_cache' = o.cache
           /\ returned' = o.count
           /\ steps' = o.steps
    /\ passes' = 1
    /\ file_imported' = TRUE
    /\ last' = Call("full", "lifespan")
    /\ UNCHANGED <<tracking_file, session, imp_pc, imp_count, tzname, scan, poll_pc>>
    /\ UNCHANGED supervisorVars

\* _poll_logs, line 39: parse_incremental
IncrementalPass ==
    /\ passes \in 1..MaxPasses
    /\ \E log \in Logs, timed_out \in BOOLEAN :
       \E written \in Written(log, timed_out) :
       \E o \in {ParseIncremental(store, tracking_file, stats_cache,
                                  log, timed_out, written)} :
           /\ store' = o.db
           /\ stats_cache' = o.cache
           /\ returned' = o.count
           /\ steps' = o.steps
    /\ passes' = passes + 1
    /\ file_imported' = TRUE
    /\ last' = Call("incremental", "poll")
    /\ UNCHANGED <<tracking_file, session, imp_pc, imp_count, tzname, scan, poll_pc>>
    /\ UNCHANGED supervisorVars

\* the backup script appends the line of a day to the tracking file
TrackingAppend ==
    /\ passes >= 1
    /\ Len(tracking_file) < MaxLines
    /\ \E line \in AppendedLines : tracking_file' = Append(tracking_file, line)
    /\ file_imported' = FALSE
    /\ last' = Call("env", "none")
    /\ UNCHANGED <<store, stats_cache, session, imp_pc, imp_count, passes, returned>>
    /\ UNCHANGED hostVars
    /\ UNCHANGED supervisorVars

NextReconcile == FullPass \/ IncrementalPass \/ TrackingAppend

SpecReconcile == InitReconcile /\ [][NextReconcile]_vars

\* the lines a cache is made of when the scanning loop is followed: marker
\* lines in any order, as a transcript cut by rotation or written by
\* overlapping runs leaves them
MarkerLines ==
    { Line("start", "Sun Jun  2 03:00:00 AM EDT 2024", ""),
      Line("start", "Sun Jun  2 09:00:00 AM CEST 2024", ""),
      Line("sent", "1,234", "10,000,000"),
      Line("sent", "2,468", "10,000,000"),
      Line("total", "50,000,000", ""),
      Banner("success", "Sun Jun  2 03:12:00 AM EDT 2024"),
      Banner("failed", "Sun Jun  2 03:00:00 AM EDT 2024") }

RECURSIVE CachesOf(_)
CachesOf(n) ==
    IF n = 0 THEN {<<>>}
    ELSE LET shorter == CachesOf(n - 1)
         IN  shorter \cup {Append(c, l) : c \in {x \in shorter : Len(x) = n - 1},
                                          l \in MarkerLines}

InitScan ==
    /\ SupervisorIdle
    /\ store = <<>>
    /\ tracking_file = <<>>
    /\ stats_cache \in CachesOf(MaxCacheLines)
    /\ session = <<>>
    /\ imp_pc = 0
    /\ imp_count = 0
    /\ passes = 0
    /\ file_imported = FALSE
    /\ returned = NoneInt
    /\ HostIdle

\* lines 200-204: entries = [], current = {}, the loop is entered
ScanStart ==
    /\ scan.k = 0
    /\ scan' = [ScanIdle EXCEPT !.k = 1]
    /\ last' = Call("scan", "poll")
    /\ UNCHANGED <<store, stats_cache, returned, tzname, steps, poll_pc>>
    /\ UNCHANGED importVars
    /\ UNCHANGED supervisorVars

\* lines 205-234: the loop body on line scan.k
ScanStep ==
    /\ scan.k \in 1..Len(stats_cache)
    /\ LET acc == ScanLine([entries |-> scan.entries, current |-> scan.current],
                           stats_cache[scan.k])
       IN  scan' = [k |-> scan.k + 1, entries |-> acc.entries, current |-> acc.current]
    /\ UNCHANGED <<store, stats_cache, returned, last, tzname, steps, poll_pc>>
    /\ UNCHANGED importVars
    /\ UNCHANGED supervisorVars

NextScan == ScanStart \/ ScanStep

SpecScan == InitScan /\ [][NextScan]_vars

(* ---------------- the poll task ---------------- *)

\* The call of an iteration that meets an error of its environment (the
\* database is locked, a file cannot be read): none, parse_incremental at
\* its first statement, or check_running_backup at its first query.
Faults == {"none", "parse", "check"}

\* check_running_backup gets as far as its query, line 92
ReachesQuery(g, ps) == g.running_process # None /\ Poll(ps, g.running_process) # NoneInt

Logged == Step("logger.exception", "Error in log poll task", "")

\* lines 37-44 of main.py: the body of one iteration; p is what
\* parse_incremental does on db and cache when it runs through
PollBody(g, db, cache, p, ps, t, stdout, fault) ==
    LET c == CheckRunningBackup(g, p.db, ps, t, stdout)
    IN  IF fault = "parse"
        THEN [g |-> g, db |-> db, cache |-> cache, raised |-> TRUE,
              steps |-> <<Step("parse_incremental", "", "raised")>>]
        ELSE IF (fault = "check" /\ ReachesQuery(g, ps)) \/ c.raised
        THEN [g |-> c.g, db |-> p.db, cache |-> p.cache, raised |-> TRUE,
              steps |-> <<Step("parse_incremental", "", ToString(p.count)),
                          Step("check_running_backup", "", "raised")>>]
        ELSE [g |-> c.g, db |-> c.db, cache |-> p.cache, raised |-> FALSE,
              steps |-> <<Step("parse_incremental", "", ToString(p.count)),
                          Step("check_running_backup", "", "None")>>]

HandleError_Breaks(exc) == "ended"

HandleError_Swallows(exc) == "sleep"

\* lines 45-48 of main.py: where the loop is after an exception
HandleError(exc) == IF exc = "CancelledError" THEN "ended" ELSE "sleep"

\* lines 34-48 of main.py: the sleep has elapsed, one iteration runs
PollIteration ==
    /\ poll_pc = "sleep"
    /\ \E stdout \in Outputs, fault \in Faults :
       \E p \in {ParseIncremental(store, tracking_file, stats_cache,
                                  Log(FALSE, <<>>), FALSE, 0)} :
       \E g \in {CallerGlobals("web")} :
       \E o \in {PollBody(g, store, stats_cache, p, procs, now, stdout, fault)} :
           /\ running_process' = o.g.running_process
           /\ last_trigger_time' = o.g.last_trigger_time
           /\ store' = o.db
           /\ stats_cache' = o.cache
           /\ steps' = IF o.raised THEN Append(o.steps, Logged) ELSE o.steps
           /\ poll_pc' = IF o.raised THEN HandleError("Exception") ELSE "sleep"
           /\ last' = IF fault # "parse" /\ ReachesQuery(g, procs)
                      THEN [Call("poll", "web") EXCEPT !.stdout = stdout]
                      ELSE Call("poll", "web")
    /\ UNCHANGED <<now, backup_cooldown, procs, cli_runs>>
    /\ UNCHANGED <<tracking_file, session, imp_pc, imp_count, passes, file_imported,
                   returned, tzname, scan>>

\* lifespan, line 77 of main.py: poll_task.cancel() reaches the task in its sleep
PollCancel ==
    /\ poll_pc = "sleep"
    /\ poll_pc' = HandleError("CancelledError")
    /\ last' = Call("cancel", "lifespan")
    /\ UNCHANGED <<store, tzname, scan, steps>>
    /\ UNCHANGED <<tracking_file, stats_cache, session, imp_pc, imp_count, passes,
                   file_imported, returned>>
    /\ UNCHANGED supervisorVars

NextPoll == WebTrigger \/ Exits \/ Tick \/ PollIteration \/ PollCancel

SpecPoll == Init /\ [][NextPoll]_vars

(* ---------------- the server as a whole ---------------- *)

\* The server starts for the first time: the table is empty, no extraction
\* has been made, and the backup script has written the line of a Sunday.
InitApp ==
    /\ SupervisorIdle
    /\ store = <<>>
    /\ tracking_file \in {<< <<"2024-06-02", "success">> >>, << <<"2024-06-02", "failed">> >>}
    /\ stats_cache = <<>>
    /\ session = <<>>
    /\ imp_pc = 0
    /\ imp_count = 0
    /\ passes = 0
    /\ file_imported = FALSE
    /\ returned = NoneInt
    /\ HostIdle

\* check_running_backup once the poll task runs (lifespan, line 73)
AppReconcile == passes >= 1 /\ Reconcile

\* a request is served once lifespan has yielded (line 75)
AppTrigger == passes >= 1 /\ WebTrigger

\* the backup script of the next night appends its line
AppAppend == TrackingAppend /\ tracking_file' = Append(tracking_file, <<"2024-06-03", "success">>)

\* lifespan's full pass, then the calls of the poll task, the requests and
\* the scripts in any order, all within the second of the start
NextApp ==
    FullPass \/ IncrementalPass \/ AppAppend \/ AppTrigger \/ Exits \/ AppReconcile

SpecApp == InitApp /\ [][NextApp]_vars

(* ---------------- properties ---------------- *)

ProgVars == <<store, procs, running_process, last_trigger_time>>

\* the slot of interpreter globals g holds a process that poll() reports running
SlotLive(g) == g.running_process # None /\ Poll(procs, g.running_process) = NoneInt
\* it holds a process that has exited
SlotExited(g) == g.running_process # None /\ Poll(procs, g.running_process) # NoneInt

AliveBy(by) == {p \in DOMAIN procs : procs[p].alive /\ procs[p].by = by}

Rejections == {AlreadyRunningMsg, CooldownMsg}

C2_AtMostOneLiveProcess ==
    \A by \in 0..cli_runs : Cardinality(AliveBy(by)) <= 1

\* the server launched a second script after its first one had exited
C2_Witness ==
    \E p, q \in DOMAIN procs :
        /\ procs[p].by = Server /\ ~procs[p].alive
        /\ procs[q].by = Server /\ procs[q].alive

\* C3: the store never holds two rows with status=running and triggered_by=manual.
C3_AtMostOneRunningManual == Cardinality(RunningManual(store)) <= 1

\* C4: every row that trigger_backup inserts with status=running, from the web
\* route or from the CLI, becomes success or failure once its script has ended
\* and the poll task has run: no row stays running for ever.
C4_EveryRunBecomesTerminal ==
    \A i \in 1..MaxRuns :
        (i \in DOMAIN store /\ store[i].status = "running")
            ~> (i \in DOMAIN store /\ store[i].status # "running")

\* C5: check_running_backup changes nothing unless the slot holds a process
\* that has exited; then it empties the slot and moves exactly one running
\* manual row to success or failure, so the next call finds the slot empty
\* and changes nothing.
C5_ReconcileOnlyAfterExit ==
    [][ last'.op = "reconcile"
        => IF SlotExited(CallerGlobals("web"))
           THEN /\ running_process' = None
                /\ UNCHANGED <<procs, last_trigger_time>>
                /\ Len(store') = Len(store)
                /\ \E i \in RunningManual(store) :
                      /\ store'[i].status \in {"success", "failure"}
                      /\ \A j \in DOMAIN store : j # i => store'[j] = store[j]
           ELSE UNCHANGED ProgVars ]_vars

\* C6: with no running process in the slot, a trigger made cooldown-1 seconds
\* after the last launch is rejected for cooldown (1 s remaining); one made
\* cooldown seconds after it or later passes the gate and, the script being
\* there and starting, returns the new run.
C6_CooldownBoundary ==
    [][ (last'.op = "trigger" /\ ~SlotLive(CallerGlobals(last'.caller)))
        => LET elapsed == now - CallerGlobals(last'.caller).last_trigger_time
           IN  /\ elapsed = backup_cooldown - 1
                    => /\ last'.result.kind = "error"
                       /\ last'.result.msg = CooldownMsg
                       /\ last'.result.remaining = 1
               /\ elapsed >= backup_cooldown
                    => /\ last'.result.msg \notin Rejections
                       /\ last'.script_exists # "unread"
                       /\ last'.spawn_ok = "yes" => last'.result.kind = "run" ]_vars

\* a trigger was refused one second before the cooldown ran out
C6_Witness ==
    /\ last.op = "trigger" /\ last.caller = "web"
    /\ last.result.msg = CooldownMsg /\ last.result.remaining = 1
    /\ now - last_trigger_time = backup_cooldown - 1
    /\ ~SlotLive(CallerGlobals("web"))

\* C7: a trigger made while the slot holds a running process, or before the
\* cooldown has run out, returns a reason and changes no row, no process,
\* neither the slot nor the cooldown timestamp.
C7_RejectionChangesNothing ==
    [][ (/\ last'.op = "trigger"
         /\ LET g == CallerGlobals(last'.caller)
            IN  SlotLive(g) \/ now - g.last_trigger_time < backup_cooldown)
        => /\ last'.result.kind = "error"
           /\ last'.result.msg \in Rejections
           /\ UNCHANGED ProgVars ]_vars

\* a trigger was refused because the script launched earlier still runs
C7_Witness ==
    /\ last.op = "trigger" /\ last.result.msg = AlreadyRunningMsg
    /\ SlotLive(CallerGlobals("web"))
    /\ now > last_trigger_time

\* C8: a trigger that passes the gate but finds no script returns an error and
\* changes no row, no process, neither the slot nor the cooldown timestamp;
\* the gate still lets the next trigger through.
C8_MissingScriptChangesNothing ==
    [][ (last'.op = "trigger" /\ last'.script_exists = "no")
        => /\ last'.result.kind = "error"
           /\ last'.result.msg = ScriptNotFoundMsg
           /\ UNCHANGED ProgVars
           /\ CanTriggerBackup(CallerGlobals(last'.caller), procs', now',
                               backup_cooldown').can ]_vars

\* the script was missing when an earlier launch's cooldown had just run out
C8_Witness ==
    /\ last.op = "trigger" /\ last.caller = "web"
    /\ last.result.msg = ScriptNotFoundMsg
    /\ store # <<>>
    /\ now - last_trigger_time = backup_cooldown

\* C9: when Popen raises, the row just inserted is stored as failure with the
\* OS error and a finish time, the error is returned, no process is added, the
\* slot holds no running process and the cooldown timestamp stays as it was.
C9_SpawnFailureMarksFailure ==
    [][ (last'.op = "trigger" /\ last'.spawn_ok = "no")
        => /\ last'.result.kind = "error"
           /\ last'.result.msg = OSErrorMsg
           /\ store' = Append(store, [BackupRun(now) EXCEPT
                                         !.status = "failure",
                                         !.error_message = OSErrorMsg,
                                         !.finished_at = now])
           /\ UNCHANGED <<procs, running_process, last_trigger_time>>
           /\ ~SlotLive(CallerGlobals(last'.caller)) ]_vars

\* a launch failed while the slot still held an exited process
C9_Witness ==
    /\ last.op = "trigger" /\ last.caller = "web" /\ last.spawn_ok = "no"
    /\ store[Len(store)].status = "failure"
    /\ store[Len(store)].error_message = OSErrorMsg
    /\ SlotExited(CallerGlobals("web"))

\* C10: an accepted trigger appends one row (running, manual, started now),
\* starts one process that is running when the call returns, returns that row
\* and, in the server, puts the process in the slot and stamps the cooldown.
C10_AcceptedTrigger ==
    [][ (last'.op = "trigger" /\ last'.spawn_ok = "yes")
        => /\ store' = Append(store, BackupRun(now))
           /\ store'[Len(store')].status = "running"
           /\ store'[Len(store')].triggered_by = "manual"
           /\ store'[Len(store')].started_at = now
           /\ Len(procs') = Len(procs) + 1
           /\ \A p \in DOMAIN procs : procs'[p] = procs[p]
           /\ procs'[Len(procs')].alive
           /\ last'.result.kind = "run"
           /\ last'.result.run = Len(store')
           /\ last'.caller = "web"
                => running_process' = Len(procs') /\ last_trigger_time' = now
           /\ last'.caller = "cli"
                => UNCHANGED <<running_process, last_trigger_time>> ]_vars

\* the server's second accepted trigger
C10_Witness ==
    /\ last.op = "trigger" /\ last.caller = "web" /\ last.result.kind = "run"
    /\ last.result.run = 2
    /\ store[2].status = "running"
    /\ Len(procs) = 2 /\ procs[1].by = Server
    /\ running_process = Len(procs) /\ last_trigger_time = now

\* C11: when check_running_backup finds that the process in the slot has
\* exited, it empties the slot and writes, on the most recent running manual
\* row and on no other row: finished_at = now, raw_log = the output it read,
\* duration_seconds = finished_at - started_at, and status success exactly when
\* the exit code is 0, else failure with an error_message that names the code.
C11_ReconcileRecordsExit ==
    [][ (last'.op = "reconcile" /\ SlotExited(CallerGlobals("web")))
        => LET rc == procs[running_process].returncode
           IN  /\ running_process' = None
               /\ last'.stdout \in Outputs
               /\ \E i \in RunningManual(store) :
                     /\ \A j \in RunningManual(store) :
                            store[j].started_at <= store[i].started_at
                     /\ store'[i].finished_at = now
                     /\ store'[i].raw_log = last'.stdout
                     /\ store'[i].duration_seconds = store'[i].finished_at - store[i].started_at
                     /\ (store'[i].status = "success") <=> (rc = 0)
                     /\ rc = 0 => store'[i].error_message = store[i].error_message
                     /\ rc # 0
                          => /\ store'[i].status = "failure"
                             /\ store'[i].error_message =
                                    "Script exited with code " \o ToString(rc)
                     /\ store' = [store EXCEPT
                                     ![i].finished_at = store'[i].finished_at,
                                     ![i].raw_log = store'[i].raw_log,
                                     ![i].duration_seconds = store'[i].duration_seconds,
                                     ![i].status = store'[i].status,
                                     ![i].error_message = store'[i].error_message] ]_vars

\* C12: can_trigger_backup, as trigger_backup calls it, refuses with "already
\* running" whenever the caller's slot holds a running process, whether or not
\* the cooldown has run out; refuses with the cooldown reason and the seconds
\* left when no running process is held and less than backup_cooldown seconds
\* have passed since the last launch; and allows the trigger in every other
\* state, among them an interpreter that has never launched anything.
C12_CanTriggerContract ==
    [][ last'.op = "trigger"
        => LET g == CallerGlobals(last'.caller)
               chk == CanTriggerBackup(g, procs, now, backup_cooldown)
               elapsed == now - g.last_trigger_time
           IN  /\ SlotLive(g)
                    => /\ ~chk.can /\ chk.msg = AlreadyRunningMsg
                       /\ last'.result.msg = AlreadyRunningMsg
               /\ (~SlotLive(g) /\ elapsed < backup_cooldown)
                    => /\ ~chk.can /\ chk.msg = CooldownMsg
                       /\ chk.remaining = backup_cooldown - elapsed
                       /\ last'.result.msg = CooldownMsg
                       /\ last'.result.remaining = chk.remaining
               /\ (~SlotLive(g) /\ elapsed >= backup_cooldown)
                    => /\ chk.can /\ chk.msg = ""
                       /\ last'.result.msg \notin Rejections
               /\ (g.running_process = None /\ g.last_trigger_time = 0)
                    => chk.can ]_vars

\* a trigger was refused as "already running" while the cooldown was active too
C12_Witness ==
    /\ last.op = "trigger" /\ last.caller = "web"
    /\ last.result.msg = AlreadyRunningMsg
    /\ SlotLive(CallerGlobals("web"))
    /\ now > last_trigger_time
    /\ now - last_trigger_time < backup_cooldown

(* ---------------- properties of the log reconciliation ---------------- *)

Sunday == DaysFromCivil(2024, 6, 2)
Monday == DaysFromCivil(2024, 6, 3)

\* the lines of TrackingLines that import_from_tracking_file must skip
MalformedLines == { <<"garbage">>, <<"2024-06-31", "success">> }

\* the day a well-formed line of TrackingLines names, and its result token
LineDay(line) == IF line[1] = "2024-06-02" THEN Sunday ELSE Monday
LineToken(line) == line[2]

\* the step taken is the loop body of the importer on a well-formed line
StepsOnValidLine ==
    /\ imp_pc \in 1..Len(tracking_file)
    /\ imp_pc' = imp_pc + 1
    /\ tracking_file[imp_pc] \notin MalformedLines

\* the step taken is the return of the importer
ImportReturns == imp_pc # 0 /\ imp_pc' = 0

NoRecordsOn(db, day) == \A i \in DOMAIN db : DayOf(db[i].started_at) # day

\* C13: an import pass over a tracking file that has not changed since the
\* last completed pass adds nothing to the session, commits nothing and
\* returns 0.
C13_SecondImportInsertsNothing ==
    [][ (ImportReturns /\ file_imported)
        => /\ session = <<>>
           /\ store' = store
           /\ returned' = 0 ]_vars

\* the file with the Sunday line twice has been imported twice; the second
\* pass returned 0 and left the six rows of the first
C13_Witness ==
    /\ passes = 2 /\ imp_pc = 0 /\ file_imported
    /\ tracking_file = << <<"2024-06-02", "success">>, <<"2024-06-02", "success">> >>
    /\ returned = 0
    /\ Len(store) = 6

\* C14: the table never holds two rows of the importer (triggered_by = cron)
\* with the same started_at and the same backup_type.
C14_NoDuplicateScheduledRecords ==
    \A i, j \in DOMAIN store :
        (/\ i # j
         /\ store[i].triggered_by = "cron" /\ store[j].triggered_by = "cron"
         /\ store[i].backup_type = store[j].backup_type)
        => store[i].started_at # store[j].started_at

\* C15: the loop body on a line that names a Sunday with the token success,
\* when the table holds no row of that day, adds exactly three rows, all
\* success: daily_mirror at 03:00, snapshot at 03:30 and cleanup at 04:00.
C15_SundaySuccessThreeRecords ==
    [][ (/\ StepsOnValidLine
         /\ LineDay(tracking_file[imp_pc]) = Sunday
         /\ LineToken(tracking_file[imp_pc]) = "success"
         /\ NoRecordsOn(store, Sunday))
        => /\ session' = session \o
                 << CronRun("daily_mirror", "success", DateTime(Sunday, 3, 0, 0)),
                    CronRun("snapshot", "success", DateTime(Sunday, 3, 30, 0)),
                    CronRun("cleanup", "success", DateTime(Sunday, 4, 0, 0)) >>
           /\ imp_count' = imp_count + 3 ]_vars

\* the one-line file 2024-06-02:success was imported into the empty table
C15_Witness ==
    /\ imp_pc = 0 /\ returned = 3
    /\ tracking_file = << <<"2024-06-02", "success">> >>
    /\ Len(store) = 3
    /\ store[2].backup_type = "snapshot"
    /\ store[2].started_at = DateTime(Sunday, 3, 30, 0)
    /\ store[3].backup_type = "cleanup"
    /\ store[3].started_at = DateTime(Sunday, 4, 0, 0)

\* C16: the loop body on a well-formed line that names a day other than a
\* Sunday, or whose token is not success, when the table holds no row of that
\* day, adds exactly one row: daily_mirror at 03:00, success when the token is
\* success and failure otherwise.
C16_OtherLinesOneRecord ==
    [][ (/\ StepsOnValidLine
         /\ \/ LineDay(tracking_file[imp_pc]) # Sunday
            \/ LineToken(tracking_file[imp_pc]) # "success"
         /\ NoRecordsOn(store, LineDay(tracking_file[imp_pc])))
        => LET line == tracking_file[imp_pc]
               status == IF LineToken(line) = "success" THEN "success" ELSE "failure"
           IN  /\ session' = Append(session,
                       CronRun("daily_mirror", status, DateTime(LineDay(line), 3, 0, 0)))
               /\ imp_count' = imp_count + 1 ]_vars

\* the one-line file 2024-06-02:failed was imported into the empty table
C16_Witness ==
    /\ imp_pc = 0 /\ returned = 1
    /\ tracking_file = << <<"2024-06-02", "failed">> >>
    /\ store = << CronRun("daily_mirror", "failure", DateTime(Sunday, 3, 0, 0)) >>

\* C17: a snapshot row is inserted only when the table holds no snapshot row
\* with its started_at, and a cleanup row only when the table holds no cleanup
\* row with its started_at (the rows of one commit are inserted one after the
\* other).
C17_CompanionDedup ==
    [][ \A k \in (Len(store) + 1)..Len(store') :
            store'[k].backup_type \in {"snapshot", "cleanup"}
            => ~ \E i \in 1..(k - 1) :
                    /\ store'[i].backup_type = store'[k].backup_type
                    /\ store'[i].started_at = store'[k].started_at ]_vars

\* C18: the table changes only at the return of the importer, after the last
\* line, and then by all the rows the pass added at once; until then a reader
\* sees none of them.
C18_BatchCommit ==
    [][ store' # store
        => /\ ImportReturns
           /\ imp_pc = Len(tracking_file) + 1
           /\ session # <<>>
           /\ store' = store \o session
           /\ session' = <<>>
           /\ returned' = Len(session) ]_vars

\* the importer has added the three rows of the first line and is at the
\* second line; the table still shows none
C18_Witness ==
    /\ imp_pc = 2 /\ Len(tracking_file) = 2
    /\ Len(session) = 3
    /\ store = <<>>

\* C19: the loop body on a line without colon or with a date that does not
\* parse adds nothing and goes on to the next line; at its return the importer
\* has a daily_mirror row in the table for every well-formed line of the file
\* and returns the number of rows it inserted.
C19_MalformedLinesSkipped ==
    [][ /\ (/\ imp_pc \in 1..Len(tracking_file)
            /\ tracking_file[imp_pc] \in MalformedLines)
           => /\ imp_pc' = imp_pc + 1
              /\ UNCHANGED <<store, session, imp_count>>
        /\ ImportReturns
           => /\ returned' = Len(store') - Len(store)
              /\ \A k \in DOMAIN tracking_file :
                    tracking_file[k] \notin MalformedLines
                    => \E i \in DOMAIN store' :
                          /\ store'[i].backup_type = "daily_mirror"
                          /\ store'[i].started_at =
                                 DateTime(LineDay(tracking_file[k]), 3, 0, 0) ]_vars

\* a file with a malformed line before a well-formed one was imported
C19_Witness ==
    /\ imp_pc = 0 /\ passes = 1
    /\ tracking_file = << <<"2024-06-31", "success">>, <<"2024-06-03", "success">> >>
    /\ returned = 1
    /\ store = << CronRun("daily_mirror", "success", DateTime(Monday, 3, 0, 0)) >>

\* C20: a total_size_bytes or transferred_bytes that is set on a row is never
\* changed again, whatever the cache holds and however often it is enriched.
C20_FillOnce ==
    [][ \A i \in DOMAIN store :
            /\ store[i].total_size_bytes # NoneInt
                 => store'[i].total_size_bytes = store[i].total_size_bytes
            /\ store[i].transferred_bytes # NoneInt
                 => store'[i].transferred_bytes = store[i].transferred_bytes ]_vars

\* the cache holds two runs of the Sunday with different figures; after the
\* enrichment the row carries those of the first
C20_Witness ==
    /\ last.op = "enrich" /\ returned = 1
    /\ stats_cache =
          RunLines("Sun Jun  2 03:00:00 AM EDT 2024", "Sun Jun  2 03:12:00 AM EDT 2024",
                   "1,234", "50,000,000")
          \o RunLines("Sun Jun  2 03:00:00 AM EDT 2024", "Sun Jun  2 03:12:00 AM EDT 2024",
                      "2,468", "60,000,000")
    /\ store[1].total_size_bytes = 50000000
    /\ store[1].transferred_bytes = 1234

\* C21: a duration_seconds that an enrichment has set on a row, zero
\* included, and the finished_at set with it are never changed again.
C21_DurationSetOnce ==
    [][ \A i \in DOMAIN store :
            store[i].duration_seconds # NoneInt
                => /\ store'[i].duration_seconds = store[i].duration_seconds
                   /\ store'[i].finished_at = store[i].finished_at ]_vars

\* the cache extracted from the transcript of the Monday run of 12 minutes
RoundTripCache ==
    ExtractLines(Transcript("Mon Jun  3 03:00:00 AM EDT 2024",
                            "Mon Jun  3 03:12:00 AM EDT 2024",
                            "1,234", "50,000,000", "success"))

\* the daily_mirror rows of the Monday on which nothing has been filled yet
UnsetMondayRows ==
    {i \in DOMAIN store :
        /\ store[i].backup_type = "daily_mirror"
        /\ store[i].started_at = DateTime(Monday, 3, 0, 0)
        /\ store[i].transferred_bytes = NoneInt
        /\ store[i].total_size_bytes = NoneInt
        /\ store[i].duration_seconds = NoneInt}

\* C22: enriching from the cache extracted from a transcript with a start
\* banner, "sent 1,234 bytes  received 10,000,000 bytes", "total size is
\* 50,000,000  speedup is 5.0" and a success banner 12 minutes later gives the
\* unfilled daily_mirror row of that day transferred_bytes 1234,
\* total_size_bytes 50000000 and duration 720.
C22_RoundTrip ==
    [][ (last'.op = "enrich" /\ stats_cache = RoundTripCache)
            => \A i \in UnsetMondayRows :
                  /\ store'[i].transferred_bytes = 1234
                  /\ store'[i].total_size_bytes = 50000000
                  /\ store'[i].duration_seconds = 720 ]_vars

\* the line the scanning loop is at
ScanAt == stats_cache[scan.k]

\* the scanning loop takes the line it is at
Scans == scan.k \in 1..Len(stats_cache) /\ scan'.k = scan.k + 1

\* C23: a start marker leaves the finished events alone and opens a new
\* accumulator that holds nothing of the one before; a success or failure
\* marker met while an accumulator is open adds one finished event and closes
\* the accumulator; no other line adds an event, and a line other than a start
\* marker met while no accumulator is open changes nothing.
C23_ScanMarkers ==
    [][ Scans =>
          /\ ScanAt.kind = "start"
               => /\ scan'.entries = scan.entries
                  /\ scan'.current = [NoEntry EXCEPT !.open = TRUE,
                                                     !.start = ParseDate(ScanAt.text)]
          /\ (ScanAt.kind \in {"success", "failed"} /\ scan.current.open)
               => /\ Len(scan'.entries) = Len(scan.entries) + 1
                  /\ SubSeq(scan'.entries, 1, Len(scan.entries)) = scan.entries
                  /\ scan'.current = NoEntry
          /\ ScanAt.kind \in {"sent", "total"} => scan'.entries = scan.entries
          /\ (ScanAt.kind # "start" /\ ~scan.current.open)
               => /\ scan'.entries = scan.entries
                  /\ scan'.current = NoEntry ]_vars

\* a byte counter before the first start marker and one after the close: the
\* one finished event carries neither
C23_Witness ==
    /\ stats_cache = << Line("sent", "1,234", "10,000,000"),
                        Line("start", "Sun Jun  2 03:00:00 AM EDT 2024", ""),
                        Banner("success", "Sun Jun  2 03:12:00 AM EDT 2024"),
                        Line("total", "50,000,000", "") >>
    /\ scan.k = 5
    /\ Len(scan.entries) = 1
    /\ scan.entries[1].sent = NoneInt
    /\ scan.entries[1].total_size = NoneInt
    /\ ~scan.current.open

\* C24: in an open accumulator a sent or total-size line replaces the figure
\* of the lines of its kind before it, and the closing marker hands the
\* figures over as they are: the finished event carries those of the last lines.
C24_LastLineWins ==
    [][ (Scans /\ scan.current.open) =>
          /\ ScanAt.kind = "sent"
               => scan'.current = [scan.current EXCEPT !.sent = ParseCommaInt(ScanAt.text)]
          /\ ScanAt.kind = "total"
               => scan'.current =
                      [scan.current EXCEPT !.total_size = ParseCommaInt(ScanAt.text)]
          /\ ScanAt.kind \in {"success", "failed"}
               => /\ scan'.entries[Len(scan'.entries)].sent = scan.current.sent
                  /\ scan'.entries[Len(scan'.entries)].total_size
                        = scan.current.total_size ]_vars

\* two sent lines in one run: the event carries the second figure
C24_Witness ==
    /\ stats_cache = << Line("start", "Sun Jun  2 03:00:00 AM EDT 2024", ""),
                        Line("sent", "1,234", "10,000,000"),
                        Line("sent", "2,468", "10,000,000"),
                        Banner("success", "Sun Jun  2 03:12:00 AM EDT 2024") >>
    /\ scan.k = 5
    /\ Len(scan.entries) = 1
    /\ scan.entries[1].sent = 2468

\* the rows an enrichment pass leaves different from what they were
ModifiedRows == {i \in DOMAIN store : store'[i] # store[i]}

\* C25: enrich_from_stats returns the number of rows that it changed.
C25_CountsModifiedRecords ==
    [][ last'.op = "enrich" => returned' = Cardinality(ModifiedRows) ]_vars

\* a finished event that has a start instant and a daily_mirror row on its day
Enrichable(entry) ==
    /\ entry.start # NoneInt
    /\ \E i \in DOMAIN store :
          /\ store[i].backup_type = "daily_mirror"
          /\ DayOf(store[i].started_at) = DayOf(entry.start)

\* the table and the count that the enrichable events of the cache alone give
EnrichableOnly ==
    EnrichEntries([db |-> store, updated |-> 0],
                  SelectSeq(Entries(stats_cache), Enrichable), 1)

\* C26: an enrichment pass leaves the table, and returns the count, that the
\* events with a parsed start and a daily_mirror row on their day give
\* without the other events of the cache; it changes no row of a day without
\* such an event; on an empty or missing cache it changes nothing and returns 0.
C26_SkipsWithoutEffect ==
    [][ last'.op = "enrich" =>
          \E only \in {EnrichableOnly} : \E entries \in {Entries(stats_cache)} :
              /\ store' = only.db
              /\ returned' = only.updated
              /\ \A i \in DOMAIN store :
                    (\A k \in DOMAIN entries :
                        \/ entries[k].start = NoneInt
                        \/ DayOf(entries[k].start) # DayOf(store[i].started_at))
                    => store'[i] = store[i]
              /\ stats_cache = <<>> => (store' = store /\ returned' = 0) ]_vars

\* a run whose banners carry a zone the host does not know, and a run of the
\* Monday against a table without a Monday row, each before a run of the
\* Sunday: the Sunday row is enriched, one record is counted
C26_Witness ==
    /\ last.op = "enrich"
    /\ tzname = Eastern
    /\ \/ stats_cache =
             ExtractLines(Transcript("Sun Jun  2 09:00:00 AM CEST 2024",
                                     "Sun Jun  2 09:12:00 AM CEST 2024",
                                     "2,468", "60,000,000", "success"))
             \o RunLines("Sun Jun  2 03:00:00 AM EDT 2024",
                         "Sun Jun  2 03:12:00 AM EDT 2024", "1,234", "50,000,000")
       \/ /\ stats_cache =
                RunLines("Mon Jun  3 03:00:00 AM EDT 2024",
                         "Mon Jun  3 03:12:00 AM EDT 2024", "1,234", "50,000,000")
                \o RunLines("Sun Jun  2 03:00:00 AM EDT 2024",
                            "Sun Jun  2 03:12:00 AM EDT 2024", "2,468", "60,000,000")
          /\ \A i \in DOMAIN store : DayOf(store[i].started_at) = Sunday
    /\ returned = 1
    /\ store[1].transferred_bytes \in {1234, 2468}
    /\ store[1].duration_seconds = 720

\* the calls of a pass, in order
Calls(pass) == [k \in DOMAIN pass |-> pass[k].call]

\* the rows of the table after a pass that were not in it before
NewRows == Len(store') - Len(store)

\* C27: parse_full_log calls the importer and then the enricher and never the
\* extractor, enriches the imported table from the cache as it found it,
\* leaves the cache as it was and returns the number of rows the import added.
C27_FullPass ==
    [][ last'.op = "full" =>
          /\ Calls(steps') = <<"import", "enrich">>
          /\ stats_cache' = stats_cache
          /\ returned' = NewRows
          /\ store' = EnrichFromStats(ImportFromTrackingFile(store, tracking_file).db,
                                      stats_cache).db ]_vars

\* start-up with a tracking file of one Sunday success and a cache of the
\* Sunday run: three rows imported, the daily_mirror one enriched, 3 returned
C27_Witness ==
    /\ last.op = "full"
    /\ tracking_file = << <<"2024-06-02", "success">> >>
    /\ stats_cache = RunLines("Sun Jun  2 03:00:00 AM EDT 2024",
                              "Sun Jun  2 03:12:00 AM EDT 2024", "1,234", "50,000,000")
    /\ returned = 3
    /\ Len(store) = 3
    /\ store[1].transferred_bytes = 1234
    /\ steps = <<Step("import", "", "3"), Step("enrich", "", "1")>>

\* the pass made a call of this name
Called(pass, call) == \E k \in DOMAIN pass : pass[k].call = call

\* C28 as stated: an incremental pass calls the extractor and then the
\* enricher exactly when its import added a row, and otherwise leaves the
\* cache and the table as they were.
C28_ExtractAndEnrichIffImported ==
    [][ last'.op = "incremental" =>
          /\ NewRows >= 1 <=> Calls(steps') = <<"import", "extract", "enrich">>
          /\ NewRows = 0 => /\ Calls(steps') = <<"import">>
                            /\ stats_cache' = stats_cache
                            /\ store' = store ]_vars

\* C28: an incremental pass calls the extractor exactly when its import added
\* a row, and the enricher, after the extractor, exactly when the extractor
\* was called and returned a cache path; when the import adds nothing the
\* cache and the table are left as they were.
C28_IncrementalOrder ==
    [][ last'.op = "incremental" =>
          /\ Calls(steps') \in { <<"import">>, <<"import", "extract">>,
                                 <<"import", "extract", "enrich">> }
          /\ Called(steps', "extract") <=> NewRows >= 1
          /\ Called(steps', "enrich")
                <=> (Called(steps', "extract") /\ steps'[2].result # NoneStr)
          /\ NewRows = 0 => (stats_cache' = stats_cache /\ store' = store) ]_vars

\* the poll that follows the Monday line: one row imported, the transcript
\* extracted, the row enriched
C28_Witness ==
    /\ last.op = "incremental"
    /\ tracking_file = << <<"2024-06-03", "success">> >>
    /\ steps = <<Step("import", "", "1"),
                 Step("extract", "read", "data/plex-backup-stats.txt"),
                 Step("enrich", "", "1")>>
    /\ Len(store) = 1
    /\ store[1].transferred_bytes = 2468

\* C29: an extraction that timed out or found no transcript returns None, and
\* the incremental pass that called it does not call the enricher.
C29_NoCacheOnFailure ==
    [][ last'.op = "incremental" =>
          \A k \in DOMAIN steps' :
              (steps'[k].call = "extract" /\ steps'[k].input \in {"timeout", "missing"})
                 => /\ steps'[k].result = NoneStr
                    /\ ~Called(steps', "enrich") ]_vars

\* the iteration of the poll task just made raised an error
Raised(pass) == \E k \in DOMAIN pass : pass[k].result = "raised"

\* C30: an iteration of the poll task in which parse_incremental or
\* check_running_backup raises leaves the task in its loop, the error logged,
\* and the task leaves the loop only when it is cancelled.
C30_ErrorsDoNotEndPolling ==
    [][ /\ (last'.op = "poll" /\ Raised(steps'))
            => /\ poll_pc' = "sleep"
               /\ steps'[Len(steps')] = Logged
        /\ (poll_pc = "sleep" /\ poll_pc' # "sleep") => last'.op = "cancel" ]_vars

\* check_running_backup has raised on an exited script: logged, the task waits
\* for its next interval
C30_Witness ==
    /\ last.op = "poll"
    /\ steps = <<Step("parse_incremental", "", "0"),
                 Step("check_running_backup", "", "raised"), Logged>>
    /\ poll_pc = "sleep"
    /\ running_process = None
    /\ \E pid \in DOMAIN procs : ~procs[pid].alive

\* C31: when poll_task.cancel() reaches the poll task in its sleep the task
\* leaves its loop (the cancellation is not taken for an error to log and
\* carry on from), and once it has left no further iteration is made: no
\* parse_incremental and no check_running_backup is called again.
C31_CancelEndsPolling ==
    [][ /\ last'.op = "cancel" => (poll_pc' = "ended" /\ steps' = steps)
        /\ poll_pc = "ended"
            => /\ poll_pc' = "ended"
               /\ last'.op # "poll"
               /\ steps' = steps ]_vars

\* the task has ended, and after it a script that the server holds has
\* exited (or a second has passed): no iteration follows to look at it
C31_Witness ==
    /\ poll_pc = "ended"
    /\ last.op = "env"
    /\ running_process # None
    /\ ~procs[running_process].alive
    /\ RunningManual(store) # {}

\* C32: in every state, a record whose finished_at and duration_seconds are
\* both set (started_at always is) has duration_seconds = finished_at -
\* started_at, whoever wrote the two fields.
C32_DurationIsDifference ==
    \A i \in DOMAIN store :
        (store[i].finished_at # NoneInt /\ store[i].duration_seconds # NoneInt)
            => store[i].duration_seconds = store[i].finished_at - store[i].started_at

\* C33: every iteration of the poll task calls check_running_backup, also an
\* iteration in which parse_incremental raised an error.
C33_EveryIterationReconciles ==
    [][ last'.op = "poll" => Called(steps', "check_running_backup") ]_vars

\* rows whose insertion was followed by a successful Popen (lines 53-70): a
\* spawn failure marks its row at once (lines 72-73) and no step changes that message
LaunchRows(db) == {i \in DOMAIN db : db[i].error_message # OSErrorMsg}

\* The row that the trigger_backup call that launched process pid inserted:
\* each launch adds one row and one process, so it is the pid-th launch row.
RunOf(db, pid) ==
    CHOOSE i \in LaunchRows(db) : Cardinality({j \in LaunchRows(db) : j <= i}) = pid

\* C34: when check_running_backup finds that the process it holds has exited,
\* the row its query hands to lines 101-113 for the exit code and the output
\* is the row inserted by the trigger_backup call that launched that
\* process, and no other row is written.
C34_ResultGoesToOwnRecord ==
    [][ (last'.op = "reconcile" /\ running_process # None
            /\ Poll(procs, running_process) # NoneInt)
        => /\ MostRecentRunning(store) \in {None, RunOf(store, running_process)}
           /\ \A i \in DOMAIN store :
                 store'[i] # store[i] => i = RunOf(store, running_process) ]_vars

\* C35: a step of the server (full or incremental pass with its import and
\* enrichment, trigger_backup, check_running_backup) removes no row, leaves
\* the status of every row that is success or failure as it is, and sets no
\* existing row to running.
C35_TerminalIsAbsorbing ==
    [][ \A i \in DOMAIN store :
            /\ i \in DOMAIN store'
            /\ store[i].status \in {"success", "failure"}
                    => store'[i].status = store[i].status
            /\ store'[i].status = "running" => store[i].status = "running" ]_vars

\* The imported row of a failed night has been enriched from a run that the
\* transcript reports as successful and is still a failure; a manual row
\* that failed to spawn is still a failure after a later launch, the exit of
\* its script and a check_running_backup call.
C35_Witness ==
    /\ last.op = "reconcile"
    /\ last.result.kind = "raised"
    /\ \E i \in DOMAIN store :
          /\ store[i].triggered_by = "cron"
          /\ store[i].status = "failure"
          /\ store[i].finished_at # NoneInt
    /\ \E i, j \in ManualRuns(store) :
          /\ i < j
          /\ store[i].status = "failure"
          /\ store[j].status = "running"

\* C36: a call of enrich_from_stats adds and removes no row, changes only
\* rows whose backup_type is daily_mirror, and on those leaves backup_type,
\* status, started_at, triggered_by, error_message and raw_log as they were.
C36_EnrichmentIsAdditive ==
    [][ last'.op = "enrich"
        => /\ DOMAIN store' = DOMAIN store
           /\ \A i \in DOMAIN store :
                 /\ store'[i] # store[i] => store[i].backup_type = "daily_mirror"
                 /\ store'[i].backup_type = store[i].backup_type
                 /\ store'[i].status = store[i].status
                 /\ store'[i].started_at = store[i].started_at
                 /\ store'[i].triggered_by = store[i].triggered_by
                 /\ store'[i].error_message = store[i].error_message
                 /\ store'[i].raw_log = store[i].raw_log ]_vars

\* A pass over a cache that holds a failed run of the Sunday has filled the
\* Sunday's daily_mirror row, which is still a success; the manual row of
\* the same day is running and untouched.
C36_Witness ==
    /\ last.op = "enrich"
    /\ returned > 0
    /\ \E k \in DOMAIN stats_cache : stats_cache[k].kind = "failed"
    /\ \E i \in DOMAIN store :
          /\ store[i] = BackupRun(DateTime(DaysFromCivil(2024, 6, 2), 2, 0, 0))
    /\ \E i \in DOMAIN store :
          /\ store[i].backup_type = "daily_mirror"
          /\ store[i].status = "success"
          /\ store[i].finished_at # NoneInt

\* the server has just launched the script, at a time from which the clock
\* followed reaches the end of the cooldown
AcceptedInTime ==
    /\ last.op = "trigger"
    /\ last.caller = "web"
    /\ last.result.kind = "run"
    /\ last_trigger_time + backup_cooldown <= BootTime + MaxTicks

CanTriggerNow ==
    CanTriggerBackup(Globals(running_process, last_trigger_time), procs, now,
                     backup_cooldown).can

\* C37: after a trigger_backup call of the server that launched the script,
\* can_trigger_backup eventually returns true again, given that the script
\* ends and the clock passes the cooldown, whether or not
\* check_running_backup is ever called.
C37_EventuallyAcceptsAgain == AcceptedInTime ~> CanTriggerNow

\* can_trigger_backup returns true while the server still holds the exited
\* script of the last launch: check_running_backup has not run since the exit
C37_Witness ==
    /\ CanTriggerNow
    /\ running_process # None
    /\ ~procs[running_process].alive
    /\ store[Len(store)].status = "running"
    /\ now >= last_trigger_time + backup_cooldown
    /\ last_trigger_time > 0

\* the pass made extract_stats_file return None
FailedExtraction(pass) ==
    \E k \in DOMAIN pass : pass[k].call = "extract" /\ pass[k].result = NoneStr

\* C38, as stated: when the extraction of an incremental pass has failed or
\* timed out, the next incremental pass runs the extraction again although
\* the tracking file is as that pass read it.  (A pass that does not leaves
\* the table, the cache and the tracking file as they were, so the passes
\* after it do as it did.)
C38_RetriesFailedExtraction ==
    [][ (last'.op = "incremental" /\ FailedExtraction(steps) /\ file_imported)
            => Called(steps', "extract") ]_vars

\* C38, amended: after an incremental pass whose extraction failed or timed
\* out, a later incremental pass runs the extraction again exactly when its
\* own import adds a row; a pass that adds none calls neither the extraction
\* nor the enrichment and leaves every row and the cache as they are.
C38_NoRetryUntilNewRecord ==
    [][ (last'.op = "incremental" /\ FailedExtraction(steps))
            => /\ Called(steps', "extract") <=> Len(store') > Len(store)
               /\ ~Called(steps', "extract")
                    => /\ ~Called(steps', "enrich")
                       /\ store' = store
                       /\ stats_cache' = stats_cache ]_vars

\* The pass that imported the rows of the Sunday was cut off at the timeout
\* after the first line of the cache; the pass after it has imported nothing
\* and has left the daily_mirror row without its figures.
C38_Witness ==
    /\ last.op = "incremental"
    /\ steps = <<Step("import", "", "0")>>
    /\ stats_cache = <<Line("start", "Sun Jun  2 03:00:00 AM EDT 2024", "")>>
    /\ file_imported
    /\ \E i \in DOMAIN store :
          /\ store[i].backup_type = "daily_mirror"
          /\ store[i].started_at = DateTime(Sunday, 3, 0, 0)
          /\ store[i].finished_at = NoneInt
          /\ store[i].transferred_bytes = NoneInt

====
